---- MODULE Spec2Model ----
(***************************************************************************)
(* Model of koch_forwarder.py: a Telegram channel forwarder with a small   *)
(* HTTP query API.  The state is the four process-wide handles, the        *)
(* platform connection, the position of the startup hook, the forward      *)
(* subscription and the last HTTP response.                                *)
(*                                                                         *)
(* Conventions.  Python None is the empty tuple and a present value x is   *)
(* the one-element tuple <<x>>.  A Python str that is formatted or         *)
(* stripped is a tuple of one-character strings (tokens).  A datetime is a *)
(* number of ticks, TicksPerSecond ticks to the second; Telegram message   *)
(* dates are whole seconds, datetime.now() has sub-second resolution.      *)
(***************************************************************************)
EXTENDS Integers, Sequences, FiniteSets, TLC

VARIABLES
    pc,                 \* position of lifespan / init_telegram
    telegram_client,    \* global, line 40
    target_channel_id,  \* global, line 41
    source_entity,      \* global, line 42
    target_entity,      \* global, line 43
    clientState,        \* platform client: "none", "created", "connected", "closed"
    linkUp,             \* the network link of the platform client
    initResult,         \* what init_telegram gave its caller
    initLog,            \* the closing log line of init_telegram
    handlerRegistered,  \* forward_handler is subscribed to NewMessage
    N8N_API_KEY,        \* configuration, line 37
    inbox,              \* notifications delivered by the platform, not yet handled
    delivered,          \* number of notifications the platform has delivered
    forwardLog,         \* one entry per log line of forward_handler
    response            \* the last HTTP response, with the request it answers

vars == <<pc, telegram_client, target_channel_id, source_entity, target_entity,
          clientState, linkUp, initResult, initLog, handlerRegistered,
          N8N_API_KEY, inbox, delivered, forwardLog, response>>

handles == <<telegram_client, target_channel_id, source_entity, target_entity>>

-----------------------------------------------------------------------------
(* Bounds of the model *)

MaxNotifications == 3
MaxHours == 1
MaxHist == 2
MaxEnrich == 2
TicksPerSecond == 2

(* Program constants *)

SecondsPerHour == 3600
FetchLimit == 500

-----------------------------------------------------------------------------
(* Python values *)

None == <<>>
Some(x) == <<x>>

Min(a, b) == IF a < b THEN a ELSE b

\* getattr(obj, name, default) on an optional object: the default when the
\* object is None or has no such attribute.
GetAttr(obj, name, default) ==
    IF obj = None THEN default
    ELSE IF name \in DOMAIN obj[1] THEN obj[1][name] ELSE default

\* obj.name: raises AttributeError when the attribute is missing.
HasAttr(obj, name) == obj # None /\ name \in DOMAIN obj[1]

\* A channel id as a signed decimal numeral (it exceeds 32 bits).
ChannelId(neg, digits) == [neg |-> neg, digits |-> digits]

MarkedId == ChannelId(TRUE, <<"1","0","0","1","2","3","4","5","6","7","8","9","0">>)
BareId == ChannelId(FALSE, <<"1","2","3","4","5","6","7","8","9","0">>)

\* Python truthiness of target_channel_id (None and 0 are falsy).
Truthy(id) == id # None /\ id[1].digits # <<"0">>

\* Platform entities; every attribute value is optional.  A channel has a
\* title and no first_name, a user a first_name and no title.
Channel(id, title, username) == [id |-> Some(id), title |-> title, username |-> username]
User(id, first_name, username) == [id |-> Some(id), first_name |-> first_name, username |-> username]

SourceChannelEntity == Channel(ChannelId(FALSE, <<"7","7","7","7">>), Some("Alfred Koch"), Some("AlfredKochBayern"))
SourceUserEntity == User(ChannelId(FALSE, <<"5","5">>), Some("Alfred"), Some("AlfredKochBayern"))
TargetChannelMarked == Channel(MarkedId, Some("Koch Avatar"), Some("Koch_Avatar"))
TargetChannelBare == Channel(BareId, Some("Koch Avatar"), Some("Koch_Avatar"))
TargetUserEntity == User(ChannelId(FALSE, <<"6","6","6","6">>), Some("Koch"), Some("Koch_Avatar"))

\* What get_entity can resolve a configured handle to.
SourceEntities == {SourceChannelEntity, SourceUserEntity}
TargetEntities == {TargetChannelMarked, TargetChannelBare, TargetUserEntity}

ApiKeys == {"", "secret"}
Headers == {None, Some("secret"), Some("wrong"), Some("")}

-----------------------------------------------------------------------------
(* Strings *)

Whitespace == {" ", "\n", "\t"}

RECURSIVE LStrip(_)
LStrip(s) ==
    IF s = <<>> THEN <<>>
    ELSE IF Head(s) \in Whitespace THEN LStrip(Tail(s)) ELSE s

RECURSIVE RStrip(_)
RStrip(s) ==
    IF s = <<>> THEN <<>>
    ELSE IF s[Len(s)] \in Whitespace THEN RStrip(SubSeq(s, 1, Len(s) - 1)) ELSE s

\* str.strip()
Strip(s) == RStrip(LStrip(s))

Digit == <<"0", "1", "2", "3", "4", "5", "6", "7", "8", "9">>

\* str(n) for a natural number n
RECURSIVE NatToStr(_)
NatToStr(n) ==
    IF n < 10 THEN <<Digit[n + 1]>>
    ELSE NatToStr(n \div 10) \o <<Digit[(n % 10) + 1]>>

\* str(id) for a channel id
IdToStr(id) == (IF id.neg THEN <<"-">> ELSE <<>>) \o id.digits

\* str(abs(id))[3:]
IdForLink(id) == SubSeq(id.digits, 4, Len(id.digits))

LinkPrefix == "https://t.me/c/"
LinkLabel == "\n[link] Source: "
SourceLabel == "\nIstochnik: "
Separator == "\n\n---\n\n"

\* f"https://t.me/c/{channel_id_for_link}/{message.id}", lines 216-217
MessageLink(tcid, message_id) ==
    <<LinkPrefix>> \o IdForLink(tcid[1]) \o <<"/">> \o NatToStr(message_id)

-----------------------------------------------------------------------------
(* Time *)

\* datetime.now(timezone.utc) - timedelta(hours=hours), line 200
TimeThreshold(now, hours) == now - hours * SecondsPerHour * TicksPerSecond

\* int(message.date.timestamp()), line 246
EpochSeconds(date) == date \div TicksPerSecond

-----------------------------------------------------------------------------
(* Forward-origin resolution, lines 220-241 *)

\* The outcome of an awaited platform call: it raises, or returns an
\* optional entity.
Raises == [raises |-> TRUE, value |-> None]
Returns(v) == [raises |-> FALSE, value |-> v]

\* message.forward: what get_chat() and get_sender() do, and from_name.
Forward(chat, sender, from_name) == [chat |-> chat, sender |-> sender, from_name |-> from_name]

NoOrigin == [name |-> None, handle |-> None, id |-> None]

\* lines 227-230
FromChat(fwd_entity) ==
    [name |-> GetAttr(fwd_entity, "title", None),
     handle |-> GetAttr(fwd_entity, "username", None),
     id |-> GetAttr(fwd_entity, "id", None)]

\* lines 234-237
FromSender(fwd_entity) ==
    [name |-> GetAttr(fwd_entity, "title", GetAttr(fwd_entity, "first_name", None)),
     handle |-> GetAttr(fwd_entity, "username", None),
     id |-> GetAttr(fwd_entity, "id", None)]

\* lines 240-241
FromName(forward) ==
    IF forward.from_name # None /\ forward.from_name # Some("")
    THEN [name |-> forward.from_name, handle |-> None, id |-> None]
    ELSE NoOrigin

\* lines 220-241: a fallback is tried only when the step before it raised.
ResolveForward(forward) ==
    IF forward = None THEN NoOrigin
    ELSE IF ~forward[1].chat.raises THEN FromChat(forward[1].chat.value)
    ELSE IF ~forward[1].sender.raises THEN FromSender(forward[1].sender.value)
    ELSE FromName(forward[1])

-----------------------------------------------------------------------------
(* get_recent_messages, lines 186-274 *)

Message(id, text, date, forward) == [id |-> id, text |-> text, date |-> date, forward |-> forward]

\* lines 243-253
MakeRecord(message, tcid) ==
    LET link == MessageLink(tcid, message.id)
        fwd == ResolveForward(message.forward)
    IN  [message_id |-> message.id,
         text |-> Strip(message.text),
         date |-> EpochSeconds(message.date),
         readable_date |-> message.date,
         link |-> link,
         text_with_link |-> Strip(message.text) \o <<LinkLabel>> \o link,
         forwarded_from_name |-> fwd.name,
         forwarded_from_handle |-> fwd.handle,
         forwarded_from_id |-> fwd.id]

\* A loop without the safety break.
BeforeWindowNever(message, time_threshold) == FALSE

\* lines 211-212: the safety break
BeforeWindow(message, time_threshold) == message.date < time_threshold

\* line 214
HasText(message) == message.text # <<>> /\ Strip(message.text) # <<>>

\* lines 204-253: the loop over what iter_messages yields, from position i
RECURSIVE IterMessages(_, _, _, _)
IterMessages(yielded, i, time_threshold, tcid) ==
    IF i > Len(yielded) THEN <<>>
    ELSE IF BeforeWindow(yielded[i], time_threshold) THEN <<>>
    ELSE IF HasText(yielded[i])
         THEN <<MakeRecord(yielded[i], tcid)>>
                  \o IterMessages(yielded, i + 1, time_threshold, tcid)
         ELSE IterMessages(yielded, i + 1, time_threshold, tcid)

\* Where list.sort(key=date, reverse=True) puts a record: before the first
\* record that is strictly older (the sort is stable).
RECURSIVE InsertByDate(_, _)
InsertByDate(sorted, rec) ==
    IF sorted = <<>> THEN <<rec>>
    ELSE IF Head(sorted).date < rec.date THEN <<rec>> \o sorted
    ELSE <<Head(sorted)>> \o InsertByDate(Tail(sorted), rec)

RECURSIVE SortFrom(_, _, _)
SortFrom(messages, i, sorted) ==
    IF i > Len(messages) THEN sorted
    ELSE SortFrom(messages, i + 1, InsertByDate(sorted, messages[i]))

\* A result left in fetch order.
SortKeepsFetchOrder(messages) == messages

\* line 256
SortNewestFirst(messages) == SortFrom(messages, 1, <<>>)

HttpError(code, detail) == [status |-> code, body |-> [detail |-> detail]]

\* is_connected() of the platform client
IsConnected(state, link) == state = "connected" /\ link

\* lines 192-274.  yielded is what iter_messages yields, fetchRaises whether a
\* platform call raises inside the try block.
GetRecentMessages(client, connected, tcid, hours, now, yielded, fetchRaises) ==
    IF client = None \/ ~connected
    THEN HttpError(503, "Telegram client not connected")
    ELSE IF ~Truthy(tcid)
    THEN HttpError(503, "Target channel not configured")
    ELSE IF fetchRaises
    THEN HttpError(500, "Error fetching messages")
    ELSE LET time_threshold == TimeThreshold(now, hours)
             fetched == SubSeq(yielded, 1, Min(Len(yielded), FetchLimit))
             messages == SortNewestFirst(IterMessages(fetched, 1, time_threshold, tcid))
         IN  [status |-> 200,
              body |-> [success |-> TRUE,
                        messages |-> messages,
                        message_count |-> Len(messages),
                        hours_requested |-> hours,
                        time_threshold |-> time_threshold,
                        channel_id |-> IdToStr(tcid[1])]]

-----------------------------------------------------------------------------
(* get_combined_messages, lines 276-316 *)

\* A format_message that prefers the origin name to the origin handle.
SourceOfNameFirst(msg) ==
    IF msg.forwarded_from_name # None /\ msg.forwarded_from_name # Some("")
    THEN <<msg.forwarded_from_name[1]>>
    ELSE IF msg.forwarded_from_handle # None /\ msg.forwarded_from_handle # Some("")
    THEN <<"@", msg.forwarded_from_handle[1]>>
    ELSE msg.link

\* lines 288-294
SourceOf(msg) ==
    IF msg.forwarded_from_handle # None /\ msg.forwarded_from_handle # Some("")
    THEN <<"@", msg.forwarded_from_handle[1]>>
    ELSE IF msg.forwarded_from_name # None /\ msg.forwarded_from_name # Some("")
    THEN <<msg.forwarded_from_name[1]>>
    ELSE msg.link

\* lines 287-295
FormatMessage(msg) == msg.text \o <<SourceLabel>> \o SourceOf(msg)

\* '\n\n---\n\n'.join(parts), from part i
RECURSIVE Join(_, _)
Join(parts, i) ==
    IF i > Len(parts) THEN <<>>
    ELSE IF i = Len(parts) THEN parts[i]
    ELSE parts[i] \o <<Separator>> \o Join(parts, i + 1)

\* lines 297-299
CombinedText(messages) == Join([k \in 1..Len(messages) |-> FormatMessage(messages[k])], 1)

\* The except clause of lines 311-316 around the call of line 284.
CombinedExcept(result) == HttpError(500, "Error creating combined messages")

\* lines 282-316
GetCombinedMessages(client, connected, tcid, hours, now, yielded, fetchRaises) ==
    LET result == GetRecentMessages(client, connected, tcid, hours, now, yielded, fetchRaises)
    IN  IF result.status # 200 THEN CombinedExcept(result)
        ELSE [status |-> 200,
              body |-> [success |-> TRUE,
                        combined_text |-> CombinedText(result.body.messages),
                        message_count |-> result.body.message_count,
                        messages |-> result.body.messages]]

-----------------------------------------------------------------------------
(* verify_api_key, lines 45-52 *)

\* The gate without the "N8N_API_KEY and" of line 49.
GateRejectsUnconfigured(key, x_api_key) == x_api_key # Some(key)

\* TRUE when the gate raises HTTPException(401)
GateRejects(key, x_api_key) == key # "" /\ x_api_key # Some(key)

-----------------------------------------------------------------------------
(* Inputs *)

BaseNow == 3 * SecondsPerHour

\* Call times: BaseNow and the sub-second instants after it.
Nows == {BaseNow * TicksPerSecond + k : k \in 0..(TicksPerSecond - 1)}

\* Message dates (whole seconds): around the one-hour cutoff, and BaseNow.
Dates == {(BaseNow - SecondsPerHour + d) * TicksPerSecond : d \in {-1, 0, 1}}
             \cup {BaseNow * TicksPerSecond}

HoursRange == 0..MaxHours

Texts == {<<>>, <<" ">>, <<"a">>, <<" ", "b", " ">>}

OriginChannel == Channel(ChannelId(FALSE, <<"9","1">>), Some("News"), Some("news"))
OriginChannelNoHandle == Channel(ChannelId(FALSE, <<"9","2">>), Some("Private"), None)
OriginUser == User(ChannelId(FALSE, <<"8","1">>), Some("Ann"), Some("ann"))
OriginUserNoHandle == User(ChannelId(FALSE, <<"8","2">>), Some("Bob"), None)

ChatOutcomes == {Raises, Returns(None), Returns(Some(OriginChannel)), Returns(Some(OriginChannelNoHandle))}
SenderOutcomes == {Raises, Returns(None), Returns(Some(OriginUser)), Returns(Some(OriginUserNoHandle))}
FromNames == {None, Some("Deleted Account")}

Forwards == {None} \cup
    {Some(Forward(c, s, n)) : c \in ChatOutcomes, s \in SenderOutcomes, n \in FromNames}

\* Sequences over S of length at most n
RECURSIVE SeqsUpTo(_, _)
SeqsUpTo(S, n) ==
    IF n = 0 THEN {<<>>}
    ELSE LET shorter == SeqsUpTo(S, n - 1)
         IN  shorter \cup {Append(q, x) : q \in shorter, x \in S}

DistinctIds(h) == \A i, j \in 1..Len(h) : i # j => h[i].id # h[j].id

\* Histories for the time window and the ordering: any dates, any order.
FetchMessages == {Message(i, t, d, None) : i \in 1..MaxHist, t \in Texts, d \in Dates}
FetchHistories == {h \in SeqsUpTo(FetchMessages, MaxHist) : DistinctIds(h)}

\* Histories for the enrichment: recent messages with text, any forward.
EnrichMessages == {Message(i, <<"a">>, BaseNow * TicksPerSecond, f) : i \in 1..MaxEnrich, f \in Forwards}
EnrichHistories == {h \in SeqsUpTo(EnrichMessages, MaxEnrich) : \A i \in 1..Len(h) : h[i].id = i}

\* Histories for the requests of the process life cycle.
LifeHistories ==
    {<<>>,
     <<Message(41, <<"a">>, BaseNow * TicksPerSecond, Some(Forward(Returns(Some(OriginChannel)), Raises, None)))>>}

SourceMessageIds == {41, 42}

-----------------------------------------------------------------------------
(* init_telegram and lifespan, lines 54-147 *)

NoResponse == [endpoint |-> "none"]

Init ==
    /\ pc = "create"
    /\ telegram_client = None
    /\ target_channel_id = None
    /\ source_entity = None
    /\ target_entity = None
    /\ clientState = "none"
    /\ linkUp = TRUE
    /\ initResult = "pending"
    /\ initLog = ""
    /\ handlerRegistered = FALSE
    /\ N8N_API_KEY \in ApiKeys
    /\ inbox = <<>>
    /\ delivered = 0
    /\ forwardLog = <<>>
    /\ response = NoResponse

\* An init_telegram without the outer except clause.
OuterExceptEscapes == "raised"

\* lines 126-128: what the outer except clause gives the caller
OuterExcept == "False"

\* lines 118-120: what the inner except clause gives the caller
InnerExcept == "False"

\* init_telegram ends; lifespan logs the outcome and yields (lines 136-142).
\* An exception out of init_telegram would end the startup hook instead.
InitReturn(result, log) ==
    /\ initResult' = result
    /\ initLog' = log
    /\ pc' = IF result = "raised" THEN "crashed" ELSE "serving"

\* lines 62-71
CreateClient ==
    /\ pc = "create"
    /\ \/ /\ telegram_client' = Some("TelegramClient")
          /\ clientState' = "created"
          /\ pc' = "start"
          /\ UNCHANGED <<initResult, initLog>>
       \/ /\ InitReturn(OuterExcept, "startup_failed")
          /\ UNCHANGED <<telegram_client, clientState>>
    /\ UNCHANGED <<target_channel_id, source_entity, target_entity, linkUp,
                   handlerRegistered, N8N_API_KEY, inbox, delivered, forwardLog, response>>

\* line 74
StartClient ==
    /\ pc = "start"
    /\ \/ /\ clientState' = "connected"
          /\ pc' = "authorize"
          /\ UNCHANGED <<initResult, initLog>>
       \/ /\ clientState' \in {"created", "connected"}
          /\ InitReturn(OuterExcept, "startup_failed")
    /\ UNCHANGED <<telegram_client, target_channel_id, source_entity, target_entity, linkUp,
                   handlerRegistered, N8N_API_KEY, inbox, delivered, forwardLog, response>>

\* line 76, and lines 122-124 when not authorized
CheckAuthorized ==
    /\ pc = "authorize"
    /\ \/ /\ pc' = "get_me"
          /\ UNCHANGED <<initResult, initLog>>
       \/ InitReturn("False", "not_authorized")
       \/ InitReturn(OuterExcept, "startup_failed")
    /\ UNCHANGED <<telegram_client, target_channel_id, source_entity, target_entity,
                   clientState, linkUp, handlerRegistered, N8N_API_KEY, inbox, delivered,
                   forwardLog, response>>

\* lines 77-88
GetMe ==
    /\ pc = "get_me"
    /\ \/ /\ pc' = "get_source"
          /\ UNCHANGED <<initResult, initLog>>
       \/ InitReturn(OuterExcept, "startup_failed")
    /\ UNCHANGED <<telegram_client, target_channel_id, source_entity, target_entity,
                   clientState, linkUp, handlerRegistered, N8N_API_KEY, inbox, delivered,
                   forwardLog, response>>

\* line 92
GetSource ==
    /\ pc = "get_source"
    /\ \/ /\ \E e \in SourceEntities : source_entity' = Some(e)
          /\ pc' = "get_target"
          /\ UNCHANGED <<initResult, initLog>>
       \/ /\ InitReturn(InnerExcept, "channel_setup_error")
          /\ UNCHANGED source_entity
    /\ UNCHANGED <<telegram_client, target_channel_id, target_entity,
                   clientState, linkUp, handlerRegistered, N8N_API_KEY, inbox, delivered,
                   forwardLog, response>>

\* lines 96-97 read .title of both entities: AttributeError on an entity
\* that has none.
LogLinesRaise(source, target) == ~HasAttr(source, "title") \/ ~HasAttr(target, "title")

\* lines 93-116: everything after the second get_entity is synchronous
GetTarget ==
    /\ pc = "get_target"
    /\ \/ \E e \in TargetEntities :
             /\ target_entity' = Some(e)
             /\ target_channel_id' = e.id
             /\ IF LogLinesRaise(source_entity, Some(e))
                THEN /\ InitReturn(InnerExcept, "channel_setup_error")
                     /\ UNCHANGED handlerRegistered
                ELSE /\ handlerRegistered' = TRUE
                     /\ InitReturn("True", "active")
       \/ /\ InitReturn(InnerExcept, "channel_setup_error")
          /\ UNCHANGED <<target_entity, target_channel_id, handlerRegistered>>
    /\ UNCHANGED <<telegram_client, source_entity, clientState, linkUp,
                   N8N_API_KEY, inbox, delivered, forwardLog, response>>

\* A shutdown that resets the client handle after disconnecting.
ShutdownClearsClient ==
    /\ pc = "serving"
    /\ pc' = "stopped"
    /\ clientState' = IF telegram_client # None THEN "closed" ELSE clientState
    /\ telegram_client' = None
    /\ UNCHANGED <<target_channel_id, source_entity, target_entity, linkUp,
                   initResult, initLog, handlerRegistered, N8N_API_KEY, inbox, delivered,
                   forwardLog, response>>

\* lines 144-147
Shutdown ==
    /\ pc = "serving"
    /\ pc' = "stopped"
    /\ clientState' = IF telegram_client # None THEN "closed" ELSE clientState
    /\ UNCHANGED <<telegram_client, target_channel_id, source_entity, target_entity, linkUp,
                   initResult, initLog, handlerRegistered, N8N_API_KEY, inbox, delivered,
                   forwardLog, response>>

\* The network link of a started client goes down or comes back.
LinkChange ==
    /\ pc = "serving"
    /\ clientState = "connected"
    /\ linkUp' = ~linkUp
    /\ UNCHANGED <<pc, telegram_client, target_channel_id, source_entity, target_entity,
                   clientState, initResult, initLog, handlerRegistered, N8N_API_KEY,
                   inbox, delivered, forwardLog, response>>

-----------------------------------------------------------------------------
(* forward_handler, lines 100-111 *)

\* A notification of the platform: the n-th delivery, of message message_id.
Event(n, message_id) == [n |-> n, message_id |-> message_id]

\* The platform delivers a NewMessage event of the source channel.  Nothing
\* deduplicates: the same message may be delivered again.
Notify ==
    /\ pc = "serving"
    /\ handlerRegistered
    /\ IsConnected(clientState, linkUp)
    /\ delivered < MaxNotifications
    /\ delivered' = delivered + 1
    /\ \E m \in SourceMessageIds : inbox' = Append(inbox, Event(delivered + 1, m))
    /\ UNCHANGED <<pc, telegram_client, target_channel_id, source_entity, target_entity,
                   clientState, linkUp, initResult, initLog, handlerRegistered,
                   N8N_API_KEY, forwardLog, response>>

\* lines 108 and 111: the log line of one run of the handler
LogEntry(event, ok) == [n |-> event.n, message_id |-> event.message_id, ok |-> ok]

\* A handler that leaves a failed event in place, to be tried again.
AfterForwardRetries(events, registered, ok) ==
    [inbox |-> IF ok THEN Tail(events) ELSE events, registered |-> registered]

\* lines 102-111: the event is consumed whether the forward succeeded or
\* raised; the handler neither retries nor re-raises.
AfterForward(events, registered, ok) == [inbox |-> Tail(events), registered |-> registered]

ForwardHandler ==
    /\ pc = "serving"
    /\ handlerRegistered
    /\ inbox # <<>>
    /\ \E ok \in (IF IsConnected(clientState, linkUp) THEN BOOLEAN ELSE {FALSE}) :
          /\ forwardLog' = Append(forwardLog, LogEntry(Head(inbox), ok))
          /\ inbox' = AfterForward(inbox, handlerRegistered, ok).inbox
          /\ handlerRegistered' = AfterForward(inbox, handlerRegistered, ok).registered
    /\ UNCHANGED <<pc, telegram_client, target_channel_id, source_entity, target_entity,
                   clientState, linkUp, initResult, initLog, N8N_API_KEY, delivered, response>>

-----------------------------------------------------------------------------
(* HTTP handlers, lines 156-316 *)

\* line 162 and line 180
TelegramConnected(client, connected) ==
    IF client # None THEN (client # None /\ connected) ELSE FALSE

\* line 165 and line 182
ForwardingActive(source, target) == source # None /\ target # None

Respond(endpoint, request, result) ==
    response' = [endpoint |-> endpoint, request |-> request,
                 status |-> result.status, body |-> result.body]

\* lines 156-172
Root ==
    /\ pc = "serving"
    /\ response = NoResponse
    /\ Respond("root", [header |-> None],
               [status |-> 200,
                body |-> [telegram_connected |-> TelegramConnected(telegram_client, IsConnected(clientState, linkUp)),
                          target_channel |-> target_channel_id,
                          api_key_required |-> (N8N_API_KEY # ""),
                          forwarding_active |-> ForwardingActive(source_entity, target_entity)]])
    /\ UNCHANGED <<pc, telegram_client, target_channel_id, source_entity, target_entity,
                   clientState, linkUp, initResult, initLog, handlerRegistered,
                   N8N_API_KEY, inbox, delivered, forwardLog>>

\* lines 174-184
HealthCheck ==
    /\ pc = "serving"
    /\ response = NoResponse
    /\ Respond("health", [header |-> None],
               [status |-> 200,
                body |-> [telegram_connected |-> TelegramConnected(telegram_client, IsConnected(clientState, linkUp)),
                          target_channel_configured |-> (target_channel_id # None),
                          forwarding_configured |-> ForwardingActive(source_entity, target_entity),
                          api_auth |-> IF N8N_API_KEY # "" THEN "enabled" ELSE "disabled"]])
    /\ UNCHANGED <<pc, telegram_client, target_channel_id, source_entity, target_entity,
                   clientState, linkUp, initResult, initLog, handlerRegistered,
                   N8N_API_KEY, inbox, delivered, forwardLog>>

\* The request as the handler sees it: its header and path parameter, the call
\* time, whether the client was connected, and what the platform does.
Request(header, hours, now, yielded, fetchRaises) ==
    [header |-> header, hours |-> hours, now |-> now, yielded |-> yielded,
     fetchRaises |-> fetchRaises, connected |-> IsConnected(clientState, linkUp)]

Unauthorized == HttpError(401, "Invalid API key")

\* GET /api/messages/{hours}: the gate of line 189, then lines 192-274
ApiMessages(in) ==
    /\ pc = "serving"
    /\ response = NoResponse
    /\ \E header \in in.headers, hours \in in.hours, now \in in.nows,
          yielded \in in.histories, fetchRaises \in in.raises :
          Respond("messages", Request(header, hours, now, yielded, fetchRaises),
                  IF GateRejects(N8N_API_KEY, header) THEN Unauthorized
                  ELSE GetRecentMessages(telegram_client, IsConnected(clientState, linkUp),
                                         target_channel_id, hours, now, yielded, fetchRaises))
    /\ UNCHANGED <<pc, telegram_client, target_channel_id, source_entity, target_entity,
                   clientState, linkUp, initResult, initLog, handlerRegistered,
                   N8N_API_KEY, inbox, delivered, forwardLog>>

\* GET /api/messages/{hours}/combined: the gate of line 279, then lines 282-316
ApiCombined(in) ==
    /\ pc = "serving"
    /\ response = NoResponse
    /\ \E header \in in.headers, hours \in in.hours, now \in in.nows,
          yielded \in in.histories, fetchRaises \in in.raises :
          Respond("combined", Request(header, hours, now, yielded, fetchRaises),
                  IF GateRejects(N8N_API_KEY, header) THEN Unauthorized
                  ELSE GetCombinedMessages(telegram_client, IsConnected(clientState, linkUp),
                                           target_channel_id, hours, now, yielded, fetchRaises))
    /\ UNCHANGED <<pc, telegram_client, target_channel_id, source_entity, target_entity,
                   clientState, linkUp, initResult, initLog, handlerRegistered,
                   N8N_API_KEY, inbox, delivered, forwardLog>>

\* The server serialises the response and sends it; nothing of it is kept.
\* Requests are answered one at a time.
Deliver ==
    /\ pc = "serving"
    /\ response # NoResponse
    /\ response' = NoResponse
    /\ UNCHANGED <<pc, telegram_client, target_channel_id, source_entity, target_entity,
                   clientState, linkUp, initResult, initLog, handlerRegistered,
                   N8N_API_KEY, inbox, delivered, forwardLog>>

-----------------------------------------------------------------------------
(* Specifications *)

LifeInputs == [headers |-> Headers, hours |-> {0, MaxHours}, nows |-> {BaseNow * TicksPerSecond},
               histories |-> LifeHistories, raises |-> BOOLEAN]

ApiMessagesLife == ApiMessages(LifeInputs)
ApiCombinedLife == ApiCombined(LifeInputs)

Next ==
    \/ CreateClient
    \/ StartClient
    \/ CheckAuthorized
    \/ GetMe
    \/ GetSource
    \/ GetTarget
    \/ LinkChange
    \/ Notify
    \/ ForwardHandler
    \/ Root
    \/ HealthCheck
    \/ ApiMessagesLife
    \/ ApiCombinedLife
    \/ Deliver
    \/ Shutdown

\* The whole process: startup, forwarding, queries, shutdown.
Spec == Init /\ [][Next]_vars

\* The state after a successful startup (init_telegram returned True).
InitReady ==
    /\ pc = "serving"
    /\ telegram_client = Some("TelegramClient")
    /\ source_entity = Some(SourceChannelEntity)
    /\ \E e \in {TargetChannelMarked, TargetChannelBare} :
          target_entity = Some(e) /\ target_channel_id = e.id
    /\ clientState = "connected"
    /\ linkUp = TRUE
    /\ initResult = "True"
    /\ initLog = "active"
    /\ handlerRegistered = TRUE
    /\ N8N_API_KEY \in ApiKeys
    /\ inbox = <<>>
    /\ delivered = 0
    /\ forwardLog = <<>>
    /\ response = NoResponse

FetchInputs == [headers |-> {Some("secret")}, hours |-> HoursRange, nows |-> Nows,
                histories |-> FetchHistories, raises |-> {FALSE}]

ApiMessagesFetch == ApiMessages(FetchInputs)

NextFetch == ApiMessagesFetch \/ Deliver

\* Queries of a ready process over histories of any dates in any order.
SpecFetch == InitReady /\ [][NextFetch]_vars

EnrichInputs == [headers |-> {Some("secret")}, hours |-> {MaxHours}, nows |-> {BaseNow * TicksPerSecond},
                 histories |-> EnrichHistories, raises |-> {FALSE}]

ApiMessagesEnrich == ApiMessages(EnrichInputs)
ApiCombinedEnrich == ApiCombined(EnrichInputs)

NextEnrich == ApiMessagesEnrich \/ ApiCombinedEnrich \/ Deliver

\* Queries of a ready process over forwarded messages of every origin.
SpecEnrich == InitReady /\ [][NextEnrich]_vars

-----------------------------------------------------------------------------
(* The claims *)

GateEndpoints == {"messages", "combined"}

Answered(endpoint) == response.endpoint = endpoint /\ response.status = 200

\* C1: with a non-empty key configured, a request to either message endpoint
\* passes the gate exactly when its x-api-key header equals the key, and is
\* answered 401 otherwise; with no key configured no request is answered 401.
C1_AuthGate ==
    response.endpoint \in GateEndpoints =>
        IF N8N_API_KEY # ""
        THEN (response.status = 401) <=> (response.request.header # Some(N8N_API_KEY))
        ELSE response.status # 401

C1_Witness ==
    /\ response.endpoint = "combined"
    /\ N8N_API_KEY = "secret"
    /\ response.request.header = None
    /\ response.status = 401

\* C2: a request that passes the gate while the client is absent or not
\* connected, or the target channel id is unresolved, is answered 503 on both
\* message endpoints.
C2_NotReadyIs503 ==
    (/\ response.endpoint \in GateEndpoints
     /\ response.status # 401
     /\ \/ telegram_client = None
        \/ ~response.request.connected
        \/ ~Truthy(target_channel_id))
    => response.status = 503

\* The number of forward attempts made for the n-th notification
Attempts(n) == Cardinality({k \in 1..Len(forwardLog) : forwardLog[k].n = n})

Pending(n) == \E k \in 1..Len(inbox) : inbox[k].n = n

\* C3: every notification the handler has taken got exactly one forward
\* attempt, in delivery order, whatever happened to the forwards before it; a
\* failed forward leaves the subscription registered and nothing escapes.
C3_FailureIsolation ==
    /\ \A n \in 1..delivered : Attempts(n) = IF Pending(n) THEN 0 ELSE 1
    /\ \A k \in 1..Len(forwardLog) : forwardLog[k].n = k
    /\ (\E k \in 1..Len(forwardLog) : ~forwardLog[k].ok) => (handlerRegistered /\ pc # "crashed")

C3_Witness ==
    /\ Len(forwardLog) >= 2
    /\ ~forwardLog[1].ok
    /\ forwardLog[2].n = 2
    /\ forwardLog[2].ok

\* The steps the claim C4 names: client start, authorization, resolution of
\* the source or the target channel.
FailedAtNamedStep ==
    /\ initResult = "False"
    /\ \/ initLog \in {"startup_failed", "not_authorized"}
       \/ initLog = "channel_setup_error" /\ (source_entity = None \/ target_entity = None)

\* C4: init_telegram gives its caller a boolean and no exception; after a
\* False the server serves, / and /health answer 200 with forwarding reported
\* off, and after a failed channel resolution the client stays connected until
\* shutdown.
C4_InitNonFatal ==
    /\ initResult \in {"pending", "True", "False"}
    /\ pc # "crashed"
    /\ initResult = "False" => pc \in {"serving", "stopped"}
    /\ (pc = "serving" /\ initLog = "channel_setup_error") => clientState = "connected"
    /\ response.endpoint \in {"root", "health"} => response.status = 200
    /\ (FailedAtNamedStep /\ response.endpoint = "root") => ~response.body.forwarding_active
    /\ (FailedAtNamedStep /\ response.endpoint = "health") => ~response.body.forwarding_configured

C4_Witness ==
    /\ pc = "serving"
    /\ initResult = "False"
    /\ initLog = "channel_setup_error"
    /\ source_entity # None
    /\ target_entity = None
    /\ clientState = "connected"
    /\ Answered("health")

\* The cutoff of the request that response answers
Cutoff == TimeThreshold(response.request.now, response.request.hours)

\* C5: every record of the returned list has a timestamp at or after the
\* cutoff = call time - hours.
C5_TimeWindow ==
    Answered("messages") =>
        \A k \in 1..Len(response.body.messages) :
            /\ response.body.messages[k].date * TicksPerSecond >= Cutoff
            /\ response.body.messages[k].readable_date >= Cutoff

C5_Witness ==
    /\ Answered("messages")
    /\ response.request.hours = 1
    /\ Len(response.body.messages) >= 1
    /\ \E i \in 1..Len(response.request.yielded) :
          /\ response.request.yielded[i].date < Cutoff
          /\ HasText(response.request.yielded[i])

\* C6 as stated: the returned list is sorted strictly by timestamp descending.
C6_StrictlyDescending ==
    Answered("messages") =>
        \A k \in 1..(Len(response.body.messages) - 1) :
            response.body.messages[k].date > response.body.messages[k + 1].date

\* C6 as amended: the returned list is sorted by timestamp descending, records
\* of equal timestamp being adjacent.
C6_Descending ==
    Answered("messages") =>
        \A k \in 1..(Len(response.body.messages) - 1) :
            response.body.messages[k].date >= response.body.messages[k + 1].date

C6_Witness ==
    /\ Answered("messages")
    /\ Len(response.body.messages) = 2
    /\ response.body.messages[1].date > response.body.messages[2].date
    /\ response.body.messages[1].message_id = response.request.yielded[2].id

\* The token sequences between the occurrences of sep in tokens
RECURSIVE Split(_, _, _)
Split(tokens, sep, current) ==
    IF tokens = <<>> THEN <<current>>
    ELSE IF Head(tokens) = sep THEN <<current>> \o Split(Tail(tokens), sep, <<>>)
    ELSE Split(Tail(tokens), sep, Append(current, Head(tokens)))

\* What C7 says follows the source label of a record
ClaimedSource(msg) ==
    IF msg.forwarded_from_handle # None THEN <<"@">> \o msg.forwarded_from_handle
    ELSE IF msg.forwarded_from_name # None THEN msg.forwarded_from_name
    ELSE msg.link

\* C7: the combined text is the entries of the records, in the order of the
\* message list, between separators; each entry is the text, the source label
\* and then @handle, else the origin name, else the deep link.
C7_SourceLine ==
    Answered("combined") =>
        LET messages == response.body.messages
            entries == Split(response.body.combined_text, Separator, <<>>)
        IN  IF messages = <<>> THEN response.body.combined_text = <<>>
            ELSE /\ Len(entries) = Len(messages)
                 /\ \A k \in 1..Len(messages) :
                       LET parts == Split(entries[k], SourceLabel, <<>>)
                       IN  /\ Len(parts) = 2
                           /\ parts[1] = messages[k].text
                           /\ parts[2] = ClaimedSource(messages[k])

C7_Witness ==
    /\ Answered("combined")
    /\ Len(response.body.messages) = 2
    /\ response.body.messages[1].forwarded_from_handle # None
    /\ response.body.messages[1].forwarded_from_name # None
    /\ response.body.messages[2].forwarded_from_handle = None
    /\ response.body.messages[2].forwarded_from_name = None

\* The origin C8 names for a forward: the first of chat entity, user sender and
\* plain name that yields one.
ClaimedOrigin(forward) ==
    IF ~forward.chat.raises /\ forward.chat.value # None
    THEN LET e == forward.chat.value[1]
         IN  [name |-> e.title, handle |-> e.username, id |-> e.id]
    ELSE IF ~forward.sender.raises /\ forward.sender.value # None
    THEN LET e == forward.sender.value[1]
         IN  [name |-> e.first_name, handle |-> e.username, id |-> e.id]
    ELSE IF forward.from_name # None
    THEN [name |-> forward.from_name, handle |-> None, id |-> None]
    ELSE NoOrigin

YieldedWithId(id) ==
    CHOOSE m \in {response.request.yielded[i] : i \in 1..Len(response.request.yielded)} : m.id = id

\* C8: the origin fields of a record of a forwarded message are those of the
\* first of the three strategies that resolves an origin; a plain origin name
\* is used when neither chat nor sender yields an entity.
C8_OriginFirstStrategy ==
    Answered("messages") =>
        \A k \in 1..Len(response.body.messages) :
            LET rec == response.body.messages[k]
                message == YieldedWithId(rec.message_id)
            IN  message.forward # None =>
                    [name |-> rec.forwarded_from_name,
                     handle |-> rec.forwarded_from_handle,
                     id |-> rec.forwarded_from_id] = ClaimedOrigin(message.forward[1])

InitSteps == {"create", "start", "authorize", "get_me", "get_source", "get_target"}

WrittenOnlyByInit(h) == (h' # h) => (pc \in InitSteps /\ h = None)

\* What C9 and its amendment share: a handle changes only in a step of
\* init_telegram and only from None.
HandlesWrittenOnlyByInit ==
    /\ WrittenOnlyByInit(telegram_client)
    /\ WrittenOnlyByInit(target_channel_id)
    /\ WrittenOnlyByInit(source_entity)
    /\ WrittenOnlyByInit(target_entity)

AllHandlesWritten ==
    /\ telegram_client # None
    /\ target_channel_id # None
    /\ source_entity # None
    /\ target_entity # None

\* C9 as stated: in every run each of the four handles is written exactly
\* once, by init_telegram during startup, and never assigned afterwards.
C9_WrittenExactlyOnce ==
    [][HandlesWrittenOnlyByInit /\ (pc' \in {"serving", "stopped"} => AllHandlesWritten')]_vars

\* C9 as amended: each of the four handles is written at most once, by
\* init_telegram during startup (all four exactly once when it returns True),
\* and never assigned afterwards.
C9_WrittenAtMostOnce ==
    [][HandlesWrittenOnlyByInit /\ (initResult' = "True" => AllHandlesWritten')]_vars

C9_Witness ==
    /\ pc = "stopped"
    /\ initResult = "True"
    /\ AllHandlesWritten
    /\ Len(forwardLog) >= 1
    /\ Answered("messages")

\* C10: / reports forwarding_active, and /health forwarding_configured, only
\* if init_telegram registered the handler and returned True.
C10_StatusAgrees ==
    /\ response.endpoint = "root" =>
          (response.body.forwarding_active => (handlerRegistered /\ initResult = "True"))
    /\ response.endpoint = "health" =>
          (response.body.forwarding_configured => (handlerRegistered /\ initResult = "True"))

====
